---- MODULE Spec2Model ----
(***************************************************************************)
(* Model of src/meeting.py, the Streamlit page "Meeting Summary Generator". *)
(*                                                                         *)
(* Streamlit executes the whole script once for the first page load and    *)
(* once more after every widget interaction.  One action of this model is  *)
(* one such interaction followed by the complete script run it triggers.   *)
(*                                                                         *)
(* Text is a sequence of tokens.  A token is a single character ("a",      *)
(* " ", "\n") or, for the literals of the source, a whole literal piece.   *)
(***************************************************************************)
EXTENDS Integers, Sequences, FiniteSets, TLC

VARIABLES
    api_key,        \* os.getenv('GEMINI_API_KEY'), fixed for the process
    session_state,  \* st.session_state: a function on the keys set so far
    uploaded_file,  \* value of the st.file_uploader widget
    custom_prompt,  \* value of the st.text_area widget
    page,           \* the elements the last script run rendered
    run,            \* what the last script run did
    first_request_by \* the button that caused the session's first request

vars == << api_key, session_state, uploaded_file, custom_prompt, page, run,
           first_request_by >>

----------------------------------------------------------------------------
(* Bounds and input sets *)

MaxFileLen == 2     \* bytes in an uploaded .txt file
MaxParas == 2       \* paragraphs in an uploaded word-processor document

\* Python's None; no text contains this token.
None == << "<None>" >>

\* A byte buffer that is no word-processor package (docx.Document raises).
NotAPackage == [valid |-> FALSE, paragraphs |-> << >>]

\* No file chosen in the uploader (st.file_uploader returns None).
NoFile == [name |-> << >>, bytes |-> << >>, package |-> NotAPackage]

\* bool(v) of Python for None and str values.
Truthy(v) == v # None /\ v # << >>

\* Bytes of uploaded .txt files: "a", and the two bytes of U+00E9 in UTF-8,
\* each of which is invalid on its own.
Bytes == {97, 195, 169}

RECURSIVE SeqsUpTo(_, _)
SeqsUpTo(S, n) ==
    IF n = 0 THEN { << >> }
    ELSE LET shorter == SeqsUpTo(S, n - 1)
         IN  shorter \cup { Append(s, x) : s \in shorter, x \in S }

\* Paragraph texts of uploaded documents.
ParaTexts == { << >>, << "a" >> }

\* What docx.Document finds in the buffer: no package, or its paragraphs.
Containers == { NotAPackage } \cup
              { [valid |-> TRUE, paragraphs |-> p] : p \in SeqsUpTo(ParaTexts, MaxParas) }

\* File names, split at "."; the uploader accepts txt, docx and doc only.
TxtNames == { << "notes", "txt" >> }
DocxNames == { << "Minutes", "v2", "DOCX" >> }
DocNames == { << "old", "doc" >> }

\* An uploaded file: its name, its buffer as the txt branch reads it (bytes)
\* and as docx.Document parses it (package).  A text file is no package; the
\* bytes of a document are not read by the branch its name selects.
UploadedFiles ==
    [name : TxtNames, bytes : SeqsUpTo(Bytes, MaxFileLen), package : { NotAPackage }]
    \cup [name : DocxNames, bytes : { << >> }, package : Containers]
    \cup [name : DocNames, bytes : { << >> },
          package : { NotAPackage, [valid |-> TRUE, paragraphs |-> << << "a" >> >>] }]

\* Values typed into the custom prompt box.
Prompts == { << >>, << " ", "\n" >>, << " ", "x", "\n" >> }

\* Outcomes of one request to the generative-text service: the response text,
\* or the text of the exception raised by the call or by response.text.
Outcomes == [ok : {TRUE}, text : { << >>, << "s" >> }]
            \cup [ok : {FALSE}, text : { << "q" >> }]

ApiKeys == { None, << >>, << "k" >> }

----------------------------------------------------------------------------
(* Document Reader *)

\* str.lower() on the extensions that occur.
lower(s) ==
    CASE s = "TXT" -> "txt"
      [] s = "DOCX" -> "docx"
      [] s = "DOC" -> "doc"
      [] OTHER -> s

\* chr() on the code points that occur.
chr(c) ==
    CASE c = 97 -> "a"
      [] c = 233 -> "e-acute"
      [] OTHER -> "?"

\* bytes.decode('utf-8') for one- and two-byte sequences: the text, or
\* raised = TRUE for a UnicodeDecodeError.
RECURSIVE decode_utf8(_)
decode_utf8(b) ==
    IF b = << >> THEN [raised |-> FALSE, value |-> << >>]
    ELSE IF Head(b) < 128
    THEN LET rest == decode_utf8(Tail(b))
         IN  [raised |-> rest.raised,
              value |-> IF rest.raised THEN None ELSE << chr(Head(b)) >> \o rest.value]
    ELSE IF Head(b) >= 194 /\ Head(b) <= 223 /\ Len(b) >= 2
            /\ b[2] >= 128 /\ b[2] <= 191
    THEN LET rest == decode_utf8(Tail(Tail(b)))
             cp == (Head(b) - 192) * 64 + (b[2] - 128)
         IN  [raised |-> rest.raised,
              value |-> IF rest.raised THEN None ELSE << chr(cp) >> \o rest.value]
    ELSE [raised |-> TRUE, value |-> None]

\* '\n'.join(parts)
RECURSIVE join(_)
join(parts) ==
    IF parts = << >> THEN << >>
    ELSE IF Len(parts) = 1 THEN parts[1]
    ELSE parts[1] \o << "\n" >> \o join(Tail(parts))

\* read_docx: the paragraphs' text joined by newlines, or an exception.
read_docx(file) ==
    IF ~file.valid THEN [raised |-> TRUE, value |-> None]
    ELSE [raised |-> FALSE, value |-> join(file.paragraphs)]

\* read_file_content returning the error string instead of None (mutant).
read_file_content_returns_message(uploaded) ==
    LET file_type == lower(uploaded.name[Len(uploaded.name)])
        got == IF file_type = "txt" THEN decode_utf8(uploaded.bytes)
               ELSE IF file_type \in {"docx", "doc"} THEN read_docx(uploaded.package)
               ELSE [raised |-> FALSE, value |-> << >>]
    IN  IF got.raised
        THEN [value |-> << "Error reading file: " >>, error_shown |-> TRUE]
        ELSE [value |-> got.value, error_shown |-> FALSE]

\* read_file_content: the content, or None with an error shown.
read_file_content(uploaded) ==
    LET file_type == lower(uploaded.name[Len(uploaded.name)])
        got == IF file_type = "txt" THEN decode_utf8(uploaded.bytes)
               ELSE IF file_type \in {"docx", "doc"} THEN read_docx(uploaded.package)
               ELSE [raised |-> FALSE, value |-> << >>]
    IN  IF got.raised
        THEN [value |-> None, error_shown |-> TRUE]
        ELSE [value |-> got.value, error_shown |-> FALSE]

----------------------------------------------------------------------------
(* Prompt Builder and Summary Service Client *)

\* The characters str.strip() removes.
Whitespace == { " ", "\n", "\t" }

RECURSIVE lstrip(_)
lstrip(s) ==
    IF s # << >> /\ Head(s) \in Whitespace THEN lstrip(Tail(s)) ELSE s

RECURSIVE rstrip(_)
rstrip(s) ==
    IF s # << >> /\ s[Len(s)] \in Whitespace
    THEN rstrip(SubSeq(s, 1, Len(s) - 1))
    ELSE s

\* str.strip()
strip(s) == rstrip(lstrip(s))

\* The indentation of the lines of the default prompt literal.
Indent == "            "

\* The default prompt literal up to the transcript.
DefaultPromptHead ==
    << "\n", Indent,
       "Please analyze this meeting transcript and provide a comprehensive summary with the following structure:",
       "\n", Indent, "1. ", "Key Discussion Points",
       "\n", Indent, "2. ", "Action Items",
       "\n", Indent, "3. ", "Decisions Made",
       "\n", Indent, "4. ", "Next Steps",
       "\n", Indent,
       "\n", Indent, "Here's the transcript:",
       "\n", Indent >>

\* The default prompt literal after the transcript.
DefaultPromptTail == << "\n", Indent >>

\* The prompt with the custom prompt tested without strip() (mutant).
build_prompt_no_strip(text, prompt_text) ==
    IF Truthy(prompt_text)
    THEN prompt_text \o << "\n", "\n", "Here's the transcript:", "\n" >> \o text
    ELSE DefaultPromptHead \o text \o DefaultPromptTail

\* The prompt generate_summary composes.
build_prompt(text, prompt_text) ==
    IF Truthy(strip(prompt_text))
    THEN prompt_text \o << "\n", "\n", "Here's the transcript:", "\n" >> \o text
    ELSE DefaultPromptHead \o text \o DefaultPromptTail

\* The literal part of the error string of generate_summary.
ErrorPrefix == << "Error generating summary:", " " >>

\* generate_summary without its try/except (mutant).
generate_summary_unguarded(text, prompt_text, outcome) ==
    LET prompt == build_prompt(text, prompt_text)
    IN  IF outcome.ok
        THEN [raised |-> FALSE, value |-> outcome.text, requests |-> << prompt >>]
        ELSE [raised |-> TRUE, value |-> None, requests |-> << prompt >>]

\* generate_summary: one request; the response text, or the error string.
\* raised says whether an exception leaves the function; requests are the
\* prompts sent to model.generate_content.
generate_summary(text, prompt_text, outcome) ==
    LET prompt == build_prompt(text, prompt_text)
    IN  IF outcome.ok
        THEN [raised |-> FALSE, value |-> outcome.text, requests |-> << prompt >>]
        ELSE [raised |-> FALSE, value |-> ErrorPrefix \o outcome.text,
              requests |-> << prompt >>]

----------------------------------------------------------------------------
(* Session Controller *)

\* The value of a session key, None while the key is not set.
Get(sess, key) == IF key \in DOMAIN sess THEN sess[key] ELSE None

\* "if not api_key" tested as "if api_key is None" (mutant).
api_key_missing_none_only(key) == key = None

\* "if not api_key": the key is unset or empty.
api_key_missing(key) == ~Truthy(key)

\* The two "not in st.session_state" initialisations of main.
init_session_state(sess) ==
    [k \in {"current_summary", "original_text"} |-> Get(sess, k)]

\* Storing the transcript only while none is stored (mutant).
store_original_text_once(sess, text) ==
    IF sess["original_text"] = None
    THEN [sess EXCEPT !["original_text"] = text]
    ELSE sess

\* Storing the transcript and dropping the summary of the previous one (mutant).
store_original_text_reset(sess, text) ==
    [sess EXCEPT !["original_text"] = text, !["current_summary"] = None]

\* st.session_state.original_text = text_content
store_original_text(sess, text) == [sess EXCEPT !["original_text"] = text]

\* Appending the new summary to the stored one (mutant).
store_summary_append(sess, summary) ==
    [sess EXCEPT !["current_summary"] = IF @ = None THEN summary ELSE @ \o summary]

\* st.session_state.current_summary = summary
store_summary(sess, summary) == [sess EXCEPT !["current_summary"] = summary]

\* The Regenerate button drawn whether or not a summary exists (mutant).
regenerate_offered_always(sess) == TRUE

\* The left operand of "and" that guards st.button("Regenerate Summary").
regenerate_offered(sess) == Truthy(sess["current_summary"])

\* st.button(label): TRUE in the run that the click on this button caused.
st_button(label, click) == click = label

\* The state of a script run inside the "if text_content:" block.
\* requests: the prompts sent so far, each with the button that sent it;
\* result: what the last generate_summary call returned; raised: an
\* exception ended the run; offered_with: the stored summary at the moment
\* the Regenerate button was drawn.
StartBlock(sess, elements) ==
    [session_state |-> sess, page |-> elements, requests |-> << >>,
     result |-> None, raised |-> FALSE, offered_with |-> None]

\* A button's "with st.spinner" body: generate_summary, then the assignment.
press(ctx, label, text, prompt_text, outcome) ==
    LET g == generate_summary(text, prompt_text, outcome)
        sent == [i \in 1..Len(g.requests) |-> [by |-> label, prompt |-> g.requests[i]]]
    IN  IF g.raised
        THEN [ctx EXCEPT !.requests = @ \o sent, !.raised = TRUE,
                         !.page = @ \cup {"exception"}]
        ELSE [ctx EXCEPT !.requests = @ \o sent, !.result = g.value,
                         !.session_state = store_summary(@, g.value)]

\* "with col1": the Generate Summary button.
generate_column(ctx, text, prompt_text, click, outcome) ==
    LET drawn == [ctx EXCEPT !.page = @ \cup {"generate_button"}]
    IN  IF st_button("Generate Summary", click)
        THEN press(drawn, "Generate Summary", text, prompt_text, outcome)
        ELSE drawn

\* "with col2": the Regenerate Summary button.
regenerate_column(ctx, text, prompt_text, click, outcome) ==
    IF ctx.raised \/ ~regenerate_offered(ctx.session_state) THEN ctx
    ELSE LET drawn == [ctx EXCEPT !.page = @ \cup {"regenerate_button"},
                                  !.offered_with = ctx.session_state["current_summary"]]
         IN  IF st_button("Regenerate Summary", click)
             THEN press(drawn, "Regenerate Summary", text, prompt_text, outcome)
             ELSE drawn

\* "Display summary if available", with the download button.
display_summary(ctx) ==
    IF ~ctx.raised /\ Truthy(ctx.session_state["current_summary"])
    THEN [ctx EXCEPT !.page = @ \cup {"summary", "download_button"}]
    ELSE ctx

\* main(): the session state, the page and the requests of one script run.
main(sess, file, prompt_text, click, outcome) ==
    LET s0 == init_session_state(sess)
        top == {"custom_prompt", "file_uploader"}
    IN  IF file = NoFile
        THEN StartBlock(s0, top)
             @@ [text_content |-> None, read_raised |-> FALSE]
        ELSE LET rd == read_file_content(file)
                 text_content == rd.value
                 details == top \cup {"file_details"}
                            \cup (IF rd.error_shown THEN {"read_error"} ELSE {})
             IN  IF Truthy(text_content)
                 THEN LET s1 == store_original_text(s0, text_content)
                          c0 == StartBlock(s1, details \cup {"transcript_view"})
                          c1 == generate_column(c0, text_content, prompt_text, click, outcome)
                          c2 == regenerate_column(c1, text_content, prompt_text, click, outcome)
                      IN  display_summary(c2)
                          @@ [text_content |-> text_content, read_raised |-> rd.error_shown]
                 ELSE StartBlock(s0, details \cup {"failed_error"})
                      @@ [text_content |-> text_content, read_raised |-> rd.error_shown]

\* The whole script: the module-level key check, then main().
script(key, sess, file, prompt_text, click, outcome) ==
    IF api_key_missing(key)
    THEN StartBlock(sess, {"config_error"})
         @@ [text_content |-> None, read_raised |-> FALSE,
             stopped |-> TRUE, configured |-> FALSE]
    ELSE main(sess, file, prompt_text, click, outcome)
         @@ [stopped |-> FALSE, configured |-> TRUE]

----------------------------------------------------------------------------
(* The session: one action per interaction, each with its script run *)

\* The outcome recorded for a run in which no button was pressed.
NoOutcome == [ok |-> TRUE, text |-> << >>]

TypeOK ==
    /\ api_key \in ApiKeys
    /\ uploaded_file \in UploadedFiles \cup { NoFile }
    /\ custom_prompt \in Prompts
    /\ DOMAIN session_state \subseteq {"current_summary", "original_text"}
    /\ first_request_by \in {"none", "Generate Summary", "Regenerate Summary"}

Init ==
    /\ api_key \in ApiKeys
    /\ session_state = << >>
    /\ uploaded_file = NoFile
    /\ custom_prompt = << >>
    /\ page = {}
    /\ run = [action |-> "none", stopped |-> FALSE, configured |-> FALSE,
              text_content |-> None, read_raised |-> FALSE, requests |-> << >>,
              result |-> None, raised |-> FALSE, offered_with |-> None,
              outcome |-> NoOutcome]
    /\ first_request_by = "none"

\* One script run with the widget values and the click that caused it.
Rerun(action, file, prompt_text, click, outcome) ==
    LET r == script(api_key, session_state, file, prompt_text, click, outcome)
    IN  /\ uploaded_file' = file
        /\ custom_prompt' = prompt_text
        /\ session_state' = r.session_state
        /\ page' = r.page
        /\ run' = [action |-> action, stopped |-> r.stopped,
                   configured |-> r.configured, text_content |-> r.text_content,
                   read_raised |-> r.read_raised, requests |-> r.requests,
                   result |-> r.result, raised |-> r.raised,
                   offered_with |-> r.offered_with, outcome |-> outcome]
        /\ first_request_by' =
               IF first_request_by = "none" /\ r.requests # << >>
               THEN r.requests[1].by
               ELSE first_request_by
        /\ UNCHANGED api_key

\* The first load of the page.
OpenPage ==
    /\ run.action = "none"
    /\ Rerun("open", uploaded_file, custom_prompt, "", NoOutcome)

\* A rerun without any interaction (the Rerun command of the page).
Refresh ==
    /\ run.action # "none"
    /\ Rerun("refresh", uploaded_file, custom_prompt, "", NoOutcome)

\* The user chooses a file in the uploader, replacing the one chosen before.
Upload ==
    /\ "file_uploader" \in page
    /\ \E f \in UploadedFiles \ { uploaded_file } :
           Rerun("upload", f, custom_prompt, "", NoOutcome)

\* The user removes the chosen file from the uploader.
RemoveFile ==
    /\ "file_uploader" \in page
    /\ uploaded_file # NoFile
    /\ Rerun("remove", NoFile, custom_prompt, "", NoOutcome)

\* The user edits the custom prompt.
EditPrompt ==
    /\ "custom_prompt" \in page
    /\ \E x \in Prompts \ { custom_prompt } :
           Rerun("edit", uploaded_file, x, "", NoOutcome)

\* The user presses Generate Summary; the service answers or fails.
ClickGenerate ==
    /\ "generate_button" \in page
    /\ \E o \in Outcomes :
           Rerun("generate", uploaded_file, custom_prompt, "Generate Summary", o)

\* The user presses Regenerate Summary; the service answers or fails.
ClickRegenerate ==
    /\ "regenerate_button" \in page
    /\ \E o \in Outcomes :
           Rerun("regenerate", uploaded_file, custom_prompt, "Regenerate Summary", o)

\* The user presses Download Summary.
ClickDownload ==
    /\ "download_button" \in page
    /\ Rerun("download", uploaded_file, custom_prompt, "Download Summary", NoOutcome)

Next ==
    \/ OpenPage
    \/ Refresh
    \/ Upload
    \/ RemoveFile
    \/ EditPrompt
    \/ ClickGenerate
    \/ ClickRegenerate
    \/ ClickDownload

Spec == Init /\ [][Next]_vars

----------------------------------------------------------------------------
(* Properties *)

current_summary == Get(session_state, "current_summary")
original_text == Get(session_state, "original_text")

\* The elements through which a summary is produced, shown or fetched.
SummaryPath == {"generate_button", "regenerate_button", "summary", "download_button"}

\* UTF-8 of the characters that occur in uploaded text files.
RECURSIVE encode_utf8(_)
encode_utf8(t) ==
    IF t = << >> THEN << >>
    ELSE (IF Head(t) = "a" THEN << 97 >> ELSE << 195, 169 >>) \o encode_utf8(Tail(t))

\* The byte buffers that are valid UTF-8.
ValidUtf8 == { encode_utf8(t) : t \in SeqsUpTo({"a", "e-acute"}, MaxFileLen) }

\* The uploaded file cannot be read: invalid UTF-8 in a text file, or a
\* document that is no valid package.
ReadFails(file) ==
    /\ file # NoFile
    /\ IF file.name \in TxtNames THEN file.bytes \notin ValidUtf8
       ELSE ~file.package.valid

\* C1: generate_summary never raises; in a run that called it, a failed
\* service call gives the string "Error generating summary: " followed by the
\* error text, a successful one gives the response text, and the page is
\* rendered to the end either way.
C1_GenerateSummaryNeverRaises ==
    /\ ~run.raised
    /\ Len(run.requests) > 0 =>
        /\ run.result # None
        /\ "exception" \notin page
        /\ "file_uploader" \in page
        /\ IF run.outcome.ok
           THEN run.result = run.outcome.text
           ELSE /\ Len(run.result) = 2 + Len(run.outcome.text)
                /\ run.result[1] = "Error generating summary:"
                /\ run.result[2] = " "
                /\ SubSeq(run.result, 3, Len(run.result)) = run.outcome.text

\* A Generate click whose service call failed and produced the error string.
C1_Witness ==
    /\ run.action = "generate"
    /\ ~run.outcome.ok
    /\ run.result = << "Error generating summary:", " ", "q" >>

\* C2: after a run in which Generate or Regenerate called generate_summary,
\* the stored summary is exactly the string that call returned.
C2_SummaryReplaced ==
    Len(run.requests) > 0 =>
        /\ run.action \in {"generate", "regenerate"}
        /\ current_summary = run.result
        /\ current_summary = IF run.outcome.ok THEN run.outcome.text
                             ELSE ErrorPrefix \o run.outcome.text

\* A Regenerate click that replaced an earlier summary by an error string.
C2_Witness ==
    /\ run.action = "regenerate"
    /\ ~run.outcome.ok
    /\ current_summary = ErrorPrefix \o << "q" >>

\* C3: after a new file has been uploaded and read, the session is in
\* FileLoaded: it holds the new transcript and no summary is shown or
\* downloadable and Regenerate is not offered.
C3_UploadReturnsToFileLoaded ==
    (run.action = "upload" /\ Truthy(run.text_content)) =>
        /\ original_text = run.text_content
        /\ page \cap {"summary", "download_button", "regenerate_button"} = {}

C5_ReadFailureHalts ==
    ReadFails(uploaded_file) =>
        /\ run.text_content = None
        /\ run.read_raised
        /\ {"read_error", "failed_error", "file_uploader"} \subseteq page
        /\ page \cap SummaryPath = {}
        /\ run.requests = << >>
        /\ ~run.raised

\* An unreadable file uploaded in a session that already holds a summary.
C5_Witness ==
    /\ ReadFails(uploaded_file)
    /\ run.action = "upload"
    /\ Truthy(current_summary)
    /\ "read_error" \in page

\* C6: with a custom prompt X that is not all whitespace the prompt sent is
\* X, then "\n\nHere's the transcript:\n", then the transcript T; otherwise
\* it starts with the template that names the four headings and holds T
\* right after the template.
C6_PromptBuilt ==
    \A i \in 1..Len(run.requests) :
        LET X == custom_prompt
            T == run.text_content
            P == run.requests[i].prompt
            n == Len(DefaultPromptHead)
        IN  IF \E j \in 1..Len(X) : X[j] \notin {" ", "\n", "\t"}
            THEN P = X \o << "\n", "\n", "Here's the transcript:", "\n" >> \o T
            ELSE /\ Len(P) >= n + Len(T)
                 /\ SubSeq(P, 1, n) = DefaultPromptHead
                 /\ \A h \in {"Key Discussion Points", "Action Items",
                              "Decisions Made", "Next Steps"} :
                        \E k \in 1..n : P[k] = h
                 /\ SubSeq(P, n + 1, n + Len(T)) = T

\* A request made with a whitespace-only custom prompt used the template.
C6_Witness ==
    /\ Len(run.requests) = 1
    /\ custom_prompt = << " ", "\n" >>
    /\ run.requests[1].prompt[7] = "Key Discussion Points"

\* C7: with the API key unset or empty every run stops at the configuration
\* error: the client is not configured, no request is made and no widget of
\* the page is rendered.
C7_MissingKeyHalts ==
    (api_key = None \/ api_key = << >>) =>
        /\ page \subseteq {"config_error"}
        /\ ~run.configured
        /\ run.requests = << >>
        /\ first_request_by = "none"
        /\ uploaded_file = NoFile
        /\ run.action # "none" => run.stopped /\ page = {"config_error"}

\* The page was run with an empty API key and shows the configuration error.
C7_Witness ==
    /\ api_key = << >>
    /\ run.action = "refresh"
    /\ page = {"config_error"}

\* C8 as stated: after any upload has been processed, original_text is the
\* text extracted from the uploaded file.
C8_OriginalTextIsLastUpload ==
    run.action = "upload" => original_text = run.text_content

\* C8 amended: after the upload of a file that was read with non-empty text,
\* original_text is the text of that file (for a text file, the text whose
\* UTF-8 encoding is the file's bytes).
C8_OriginalTextIsLastReadableUpload ==
    (run.action = "upload" /\ Truthy(run.text_content)) =>
        /\ original_text = run.text_content
        /\ uploaded_file.name \in TxtNames =>
               encode_utf8(original_text) = uploaded_file.bytes
        /\ uploaded_file.name \notin TxtNames =>
               original_text = join(uploaded_file.package.paragraphs)

\* A readable file uploaded after the summary of an earlier file was made.
C8_Witness ==
    /\ run.action = "upload"
    /\ Truthy(run.text_content)
    /\ Truthy(current_summary)
    /\ original_text = << "e-acute" >>

\* C9: a Generate or Regenerate click makes exactly one request, sent by the
\* button clicked; every other run makes none.
C9_ExactlyOneRequestPerClick ==
    /\ run.action = "generate" =>
           /\ Len(run.requests) = 1
           /\ run.requests[1].by = "Generate Summary"
    /\ run.action = "regenerate" =>
           /\ Len(run.requests) = 1
           /\ run.requests[1].by = "Regenerate Summary"
    /\ run.action \notin {"generate", "regenerate"} => run.requests = << >>

\* C10: a run that is no Generate or Regenerate click leaves current_summary
\* as it was, and the upload of a file with no readable text leaves
\* original_text as it was too.
C10_SummaryFrame ==
    [][ /\ run'.action \notin {"generate", "regenerate"} =>
               current_summary' = current_summary
        /\ (run'.action = "upload" /\ ~Truthy(run'.text_content)) =>
               original_text' = original_text ]_vars

\* A file with no readable text uploaded while a transcript and a summary
\* are stored.
C10_Witness ==
    /\ run.action = "upload"
    /\ ~Truthy(run.text_content)
    /\ Truthy(current_summary)
    /\ Truthy(original_text)

====
